---------------------------- MODULE Spec2Model ----------------------------
(***************************************************************************)
(* Dimensional normalisation of the yearly complaint extracts.             *)
(*                                                                         *)
(* Two variants of the same pipeline are modelled:                         *)
(*   "single"  src/data/normalizar.py  (resolve-or-register per row)       *)
(*   "two"     src/normalizar.py       (per-file tables with local ids,    *)
(*                                      unified dimension by dimension,    *)
(*                                      facts remapped local -> global)    *)
(*                                                                         *)
(* A CSV cell is text.  Text that is looked at character by character (the *)
(* location code) is a sequence of one-character strings; an empty cell is *)
(* the empty sequence.  A categorical cell is a string, the string "NaN"   *)
(* being the text pandas reads as a null.  A date cell is <<d, m, y>> (the *)
(* text d/m/y) or <<>>.  A numeric cell is Num(n) or NaN.                  *)
(***************************************************************************)
EXTENDS Integers, Sequences, FiniteSets, TLC

(***************************************************************************)
(* Bounds of the model.                                                    *)
(***************************************************************************)
\* Rows read over one run, all files together.
MaxFilas == 2

\* Rows of a file that lacks a column.
MaxFilasSinColumna == 1

\* Input files in the working directory, named 2020.csv, 2021.csv, ...
NArchivos == 2

\* Data rows of the population sheet.
MaxRegistros == 2

(***************************************************************************)
(* Values.                                                                 *)
(***************************************************************************)
NaN == [k |-> "nan", obj |-> 0]

Num(n) == [k |-> "num", n |-> n]

\* A float NaN boxed by iterrows()/iloc is a fresh object: it is equal to
\* nothing but itself, so as part of a dict key it is identified by the
\* file it was read from (the other columns of the key tell the rows of one
\* file apart, drop_duplicates() having merged the equal ones).
NaNBoxed(archivo) == [k |-> "nan", obj |-> archivo]

IsNaN(v) == v.k = "nan"

DESCONOCIDO == "DESCONOCIDO"

IsNullStr(s) == s = "NaN"

NaT == <<>>

FechaDefecto == <<1900, 1, 1>>

Digitos == <<"0", "1", "2", "3", "4", "5", "6", "7", "8", "9">>

DigitSet == {Digitos[i] : i \in 1..10}

DigitVal(c) == (CHOOSE i \in 1..10 : Digitos[i] = c) - 1

IsDigits(s) == Len(s) > 0 /\ \A i \in 1..Len(s) : s[i] \in DigitSet

RECURSIVE IntOfStr(_)
IntOfStr(s) ==
    IF Len(s) = 0 THEN 0
    ELSE 10 * IntOfStr(SubSeq(s, 1, Len(s) - 1)) + DigitVal(s[Len(s)])

RECURSIVE StrOfInt(_)
StrOfInt(n) ==
    IF n < 10 THEN <<Digitos[n + 1]>>
    ELSE StrOfInt(n \div 10) \o <<Digitos[(n % 10) + 1]>>

\* str.zfill(width): zeros on the left up to width, never a truncation.
RECURSIVE zfill(_, _)
zfill(s, width) == IF Len(s) >= width THEN s ELSE zfill(<<"0">> \o s, width)

(***************************************************************************)
(* pd.read_csv: the dtype of a column is inferred from all its cells.      *)
(***************************************************************************)
\* The dtype of the ubigeo_pjfs column of a file whose cells are `celdas`.
DtypeUbigeo(celdas) ==
    IF \E i \in 1..Len(celdas) : celdas[i] # <<>> /\ ~IsDigits(celdas[i])
    THEN "object"
    ELSE IF \E i \in 1..Len(celdas) : celdas[i] = <<>>
         THEN "float64"
         ELSE "int64"

\* One cell of ubigeo_pjfs as read_csv types it.
ReadUbigeo(dtype, celda) ==
    IF celda = <<>> THEN [k |-> "nan", dtype |-> dtype]
    ELSE IF dtype = "object" THEN [k |-> "str", s |-> celda]
    ELSE [k |-> dtype, n |-> IntOfStr(celda)]

\* pd.to_datetime(format='%d/%m/%Y', errors='coerce') of one cell.
EsBisiesto(y) == (y % 4 = 0 /\ y % 100 # 0) \/ y % 400 = 0

DiasDelMes(m, y) ==
    IF m = 2 THEN (IF EsBisiesto(y) THEN 29 ELSE 28)
    ELSE IF m \in {4, 6, 9, 11} THEN 30 ELSE 31

to_datetime(celda) ==
    IF celda = <<>> THEN NaT
    ELSE LET d == celda[1]
             m == celda[2]
             y == celda[3]
         IN IF /\ m \in 1..12
               /\ d >= 1 /\ d <= DiasDelMes(m, y)
               /\ y \in 1678..2261
            THEN <<y, m, d>>
            ELSE NaT

(***************************************************************************)
(* The input: the cells of one CSV row, by column.                         *)
(***************************************************************************)
Columnas ==
    {"Fecha_descarga", "anio_denuncia", "periodo_denuncia", "fecha_corte",
     "generico", "subgenerico", "articulo", "des_articulo",
     "ubigeo_pjfs", "distrito_fiscal", "dpto_pjfs", "prov_pjfs", "dist_pjfs",
     "tipo_caso", "especialidad", "cantidad"}

T1 == [Fecha_descarga |-> <<15, 1, 2021>>, anio_denuncia |-> Num(2020),
       periodo_denuncia |-> "ENERO", fecha_corte |-> <<31, 12, 2020>>]

T2 == [Fecha_descarga |-> <<15, 1, 2021>>, anio_denuncia |-> Num(2020),
       periodo_denuncia |-> "FEBRERO", fecha_corte |-> <<31, 12, 2020>>]

\* 29/02/2021 is no date; the other date cell is empty.
TMal == [Fecha_descarga |-> <<>>, anio_denuncia |-> Num(2020),
         periodo_denuncia |-> "ENERO", fecha_corte |-> <<29, 2, 2021>>]

\* 31/13/2099 is no date; the other date cell and the period cell are empty.
TNulo == [Fecha_descarga |-> <<31, 13, 2099>>, anio_denuncia |-> Num(2020),
          periodo_denuncia |-> "NaN", fecha_corte |-> <<>>]

D1 == [generico |-> "PATRIMONIO", subgenerico |-> "HURTO",
       articulo |-> "185", des_articulo |-> "HURTO SIMPLE"]

D2 == [generico |-> "PATRIMONIO", subgenerico |-> "ROBO",
       articulo |-> "188", des_articulo |-> "ROBO"]

DNulo == [generico |-> "NaN", subgenerico |-> "NaN",
          articulo |-> "NaN", des_articulo |-> "NaN"]

Lima == [distrito_fiscal |-> "LIMA", dpto_pjfs |-> "LIMA",
         prov_pjfs |-> "LIMA", dist_pjfs |-> "LIMA"]

Brena == [distrito_fiscal |-> "LIMA", dpto_pjfs |-> "LIMA",
          prov_pjfs |-> "LIMA", dist_pjfs |-> "BRENA"]

SinNombres == [distrito_fiscal |-> "NaN", dpto_pjfs |-> "NaN",
               prov_pjfs |-> "NaN", dist_pjfs |-> "NaN"]

Ubic(codigo, nombres) == [ubigeo_pjfs |-> codigo] @@ nombres

TC1 == [tipo_caso |-> "DENUNCIA", especialidad |-> "PENAL"]

TC2 == [tipo_caso |-> "DENUNCIA", especialidad |-> "FAMILIA"]

TCNulo == [tipo_caso |-> "NaN", especialidad |-> "NaN"]

Cant(n) == [cantidad |-> Num(n)]

SinCant == [cantidad |-> NaN]

\* A row with every cell filled in and well formed.
FilaLlana == T1 @@ D1 @@ Ubic(<<"1", "5", "0", "1", "0", "1">>, Lima) @@ TC1 @@ Cant(3)

\* The rows an input file is made of.
FilasCrudas ==
    { FilaLlana,
      \* the same place names under another code
      T2 @@ D2 @@ Ubic(<<"1", "5", "0", "1", "0", "2">>, Lima) @@ TC2 @@ Cant(1),
      \* the same code under other place names
      T1 @@ D1 @@ Ubic(<<"1", "5", "0", "1", "0", "1">>, Brena) @@ TC1 @@ Cant(2),
      \* a short code
      T1 @@ D2 @@ Ubic(<<"5">>, Brena) @@ TC1 @@ Cant(3),
      \* an empty code cell
      T1 @@ D1 @@ Ubic(<<>>, Lima) @@ TC1 @@ Cant(3),
      \* a code that is no number
      T1 @@ D1 @@ Ubic(<<"1", "5", "A">>, Lima) @@ TC2 @@ Cant(3),
      \* a date that is no date, a date cell, every categorical cell and the
      \* quantity cell left empty
      TNulo @@ DNulo @@ Ubic(<<"1", "5", "0", "1", "0", "2">>, SinNombres)
          @@ TCNulo @@ SinCant }

RECURSIVE SeqsHasta(_, _)
SeqsHasta(S, n) ==
    IF n = 0 THEN {<<>>}
    ELSE LET cortas == SeqsHasta(S, n - 1)
         IN cortas \cup {Append(s, x) : s \in {c \in cortas : Len(c) = n - 1}, x \in S}

\* The columns a file may lack.
ColumnasAusentes == {{c} : c \in Columnas}

Min(a, b) == IF a <= b THEN a ELSE b

\* The rows a file that lacks a column is made of (the cells of the column
\* it lacks are not there to be read).
FilasSinColumna ==
    { FilaLlana,
      TMal @@ D2 @@ Ubic(<<"5">>, Brena) @@ TC2 @@ SinCant }

\* What a file holds: its header (the columns it lacks) and its rows.  A file
\* that lacks a column is tried with one row up to MaxFilasSinColumna rows.
Contenidos(n) ==
    {[ausentes |-> {}, filas |-> f] : f \in SeqsHasta(FilasCrudas, n)}
    \cup {[ausentes |-> a, filas |-> f] :
            a \in ColumnasAusentes,
            f \in SeqsHasta(FilasSinColumna, Min(n, MaxFilasSinColumna)) \ {<<>>}}

(***************************************************************************)
(* src/data/normalizar.py: the Record Normalizer of the single-pass        *)
(* variant.  Returns the cleaned rows of the file.                         *)
(***************************************************************************)
\* Lines 15-32: columnas_criticas, the default of each critical column.
columnas_criticas(col) ==
    CASE col \in {"Fecha_descarga", "fecha_corte"} -> FechaDefecto
      [] col \in {"anio_denuncia", "cantidad"} -> Num(0)
      [] col = "ubigeo_pjfs" -> <<"0", "0", "0", "0", "0", "0">>
      [] OTHER -> DESCONOCIDO

\* Line 51: fillna('000000').astype(str).str.zfill(6) of one typed cell.
LimpiarUbigeo(celda) ==
    zfill(CASE celda.k = "nan" -> <<"0", "0", "0", "0", "0", "0">>
            [] celda.k = "str" -> celda.s
            [] celda.k = "int64" -> StrOfInt(celda.n)
            [] celda.k = "float64" -> StrOfInt(celda.n) \o <<".", "0">>,
          6)

fillna(v, defecto) == IF IsNullStr(v) THEN defecto ELSE v

fillna_fecha(v) == IF v = NaT THEN FechaDefecto ELSE v

fillna_num(v, defecto) == IF IsNaN(v) THEN Num(defecto) ELSE v

normalizar_datos_delitos(contenido) ==
    LET filas == contenido.filas
        falta(col) == col \in contenido.ausentes
        dtype == DtypeUbigeo([i \in 1..Len(filas) |-> filas[i].ubigeo_pjfs])
        txt(col, v) == IF falta(col) THEN DESCONOCIDO ELSE fillna(v, DESCONOCIDO)
        fecha(col, v) ==
            IF falta(col) THEN FechaDefecto ELSE fillna_fecha(to_datetime(v))
        limpia(r) ==
            [Fecha_descarga |-> fecha("Fecha_descarga", r.Fecha_descarga),
             anio_denuncia |->
                 IF falta("anio_denuncia") THEN Num(0) ELSE r.anio_denuncia,
             periodo_denuncia |->
                 IF falta("periodo_denuncia") THEN DESCONOCIDO
                 ELSE r.periodo_denuncia,
             fecha_corte |-> fecha("fecha_corte", r.fecha_corte),
             generico |-> txt("generico", r.generico),
             subgenerico |-> txt("subgenerico", r.subgenerico),
             articulo |-> txt("articulo", r.articulo),
             des_articulo |-> txt("des_articulo", r.des_articulo),
             ubigeo_pjfs |->
                 IF falta("ubigeo_pjfs") THEN <<"0", "0", "0", "0", "0", "0">>
                 ELSE LimpiarUbigeo(ReadUbigeo(dtype, r.ubigeo_pjfs)),
             distrito_fiscal |-> txt("distrito_fiscal", r.distrito_fiscal),
             dpto_pjfs |-> txt("dpto_pjfs", r.dpto_pjfs),
             prov_pjfs |-> txt("prov_pjfs", r.prov_pjfs),
             dist_pjfs |-> txt("dist_pjfs", r.dist_pjfs),
             tipo_caso |-> txt("tipo_caso", r.tipo_caso),
             especialidad |-> txt("especialidad", r.especialidad),
             cantidad |->
                 IF falta("cantidad") THEN Num(0) ELSE fillna_num(r.cantidad, 0)]
    IN [i \in 1..Len(filas) |-> limpia(filas[i])]

(***************************************************************************)
(* The natural keys and the dimension rows of one row.                     *)
(***************************************************************************)
ClaveTiempo(row) ==
    <<row.Fecha_descarga, row.anio_denuncia, row.periodo_denuncia, row.fecha_corte>>

ClaveDelito(row) ==
    <<row.generico, row.subgenerico, row.articulo, row.des_articulo>>

ClaveUbicacion(row) ==
    <<row.ubigeo_pjfs, row.distrito_fiscal, row.dpto_pjfs, row.prov_pjfs, row.dist_pjfs>>

ClaveTipoCaso(row) == <<row.tipo_caso, row.especialidad>>

FilaDimTiempo(id, row) ==
    [id_tiempo |-> id, Fecha_descarga |-> row.Fecha_descarga,
     anio_denuncia |-> row.anio_denuncia,
     periodo_denuncia |-> row.periodo_denuncia, fecha_corte |-> row.fecha_corte]

FilaDimDelito(id, row) ==
    [id_delito |-> id, generico |-> row.generico, subgenerico |-> row.subgenerico,
     articulo |-> row.articulo, des_articulo |-> row.des_articulo]

\* src/data/normalizar.py writes the location code with the names.
FilaDimUbicacion(id, row) ==
    [id_ubicacion |-> id, ubigeo_pjfs |-> row.ubigeo_pjfs,
     distrito_fiscal |-> row.distrito_fiscal, dpto_pjfs |-> row.dpto_pjfs,
     prov_pjfs |-> row.prov_pjfs, dist_pjfs |-> row.dist_pjfs]

FilaDimTipoCaso(id, row) ==
    [id_tipo_caso |-> id, tipo_caso |-> row.tipo_caso,
     especialidad |-> row.especialidad]

\* The fact row: the running id, the four resolved ids, the measure.
FilaHecho(id, t, d, u, c, cantidad) ==
    [id_denuncia |-> id, id_tiempo |-> t, id_delito |-> d, id_ubicacion |-> u,
     id_tipo_caso |-> c, cantidad |-> cantidad]

(***************************************************************************)
(* resolve-or-register: `if key not in map: map[key] = next; append; next  *)
(* += 1`, on one dimension's map, table and counter.                       *)
(***************************************************************************)
\* A registration that forgets the dimension row.
RegistroSinFila(reg, key, fila) ==
    [map |-> [k \in DOMAIN reg.map \cup {key} |->
                 IF k = key THEN reg.next ELSE reg.map[k]],
     tabla |-> reg.tabla,
     next |-> reg.next + 1]

\* A registration that skips an identifier.
RegistroConHueco(reg, key, fila) ==
    [map |-> [k \in DOMAIN reg.map \cup {key} |->
                 IF k = key THEN reg.next ELSE reg.map[k]],
     tabla |-> Append(reg.tabla, fila),
     next |-> reg.next + 2]

\* A registration that starts the table over.
RegistroReinicia(reg, key, fila) ==
    [map |-> [k \in DOMAIN reg.map \cup {key} |->
                 IF k = key THEN reg.next ELSE reg.map[k]],
     tabla |-> <<fila>>,
     next |-> reg.next + 1]

\* A registration that leaves the counter where it was.
RegistroSinAvance(reg, key, fila) ==
    [map |-> [k \in DOMAIN reg.map \cup {key} |->
                 IF k = key THEN reg.next ELSE reg.map[k]],
     tabla |-> Append(reg.tabla, fila),
     next |-> reg.next]

RegistroNuevo(reg, key, fila) ==
    [map |-> [k \in DOMAIN reg.map \cup {key} |->
                 IF k = key THEN reg.next ELSE reg.map[k]],
     tabla |-> Append(reg.tabla, fila),
     next |-> reg.next + 1]

\* A registration without the `if key not in map` test.
RegistrarSiempre(reg, key, fila) ==
    [map |-> [k \in DOMAIN reg.map \cup {key} |->
                 IF k = key THEN reg.next ELSE reg.map[k]],
     tabla |-> Append(reg.tabla, fila),
     next |-> reg.next + 1]

Registrar(reg, key, fila) ==
    IF key \in DOMAIN reg.map THEN reg ELSE RegistroNuevo(reg, key, fila)

(***************************************************************************)
(* src/normalizar.py: normalizar_datos_delitos of the two-phase variant.   *)
(* It builds the per-file dimension tables (local ids) and the per-file    *)
(* fact table, and raises KeyError on a file that lacks a column.          *)
(***************************************************************************)
\* One ubigeo_pjfs cell as the two-phase variant keeps it (no cleaning): a
\* number (5 == 5.0), a string of an object column, or a NaN.
UbigeoTP(celda, archivo) ==
    CASE celda.k = "str" -> [k |-> "str", s |-> celda.s]
      [] celda.k \in {"int64", "float64"} -> Num(celda.n)
      [] celda.k = "nan" ->
            IF celda.dtype = "float64" THEN NaNBoxed(archivo) ELSE NaN

\* Lines 8-29: read_csv, the two dates coerced, three columns filled.
LeerTP(contenido, archivo) ==
    LET filas == contenido.filas
        dtype == DtypeUbigeo([i \in 1..Len(filas) |-> filas[i].ubigeo_pjfs])
        tipada(r) ==
            [r EXCEPT !.Fecha_descarga = to_datetime(r.Fecha_descarga),
                      !.fecha_corte = to_datetime(r.fecha_corte),
                      !.articulo = fillna(r.articulo, DESCONOCIDO),
                      !.des_articulo = fillna(r.des_articulo, DESCONOCIDO),
                      !.subgenerico = fillna(r.subgenerico, DESCONOCIDO),
                      !.ubigeo_pjfs =
                          UbigeoTP(ReadUbigeo(dtype, r.ubigeo_pjfs), archivo)]
    IN [i \in 1..Len(filas) |-> tipada(filas[i])]

ColsTiempo(r) ==
    [Fecha_descarga |-> r.Fecha_descarga, anio_denuncia |-> r.anio_denuncia,
     periodo_denuncia |-> r.periodo_denuncia, fecha_corte |-> r.fecha_corte]

ColsDelito(r) ==
    [generico |-> r.generico, subgenerico |-> r.subgenerico,
     articulo |-> r.articulo, des_articulo |-> r.des_articulo]

ColsNombres(r) ==
    [distrito_fiscal |-> r.distrito_fiscal, dpto_pjfs |-> r.dpto_pjfs,
     prov_pjfs |-> r.prov_pjfs, dist_pjfs |-> r.dist_pjfs]

ColsUbicacion(r) == [ubigeo_pjfs |-> r.ubigeo_pjfs] @@ ColsNombres(r)

ColsTipoCaso(r) == [tipo_caso |-> r.tipo_caso, especialidad |-> r.especialidad]

\* The distinct rows, those that come last in the file first.
RECURSIVE ultimas_primero(_)
ultimas_primero(s) ==
    IF s = <<>> THEN <<>>
    ELSE LET resto == ultimas_primero(Tail(s))
         IN IF \E i \in 1..Len(resto) : resto[i] = Head(s) THEN resto
            ELSE Append(resto, Head(s))

\* DataFrame.drop_duplicates().reset_index(drop=True): first occurrences, in order.
RECURSIVE drop_duplicates(_)
drop_duplicates(s) ==
    IF s = <<>> THEN <<>>
    ELSE LET antes == drop_duplicates(SubSeq(s, 1, Len(s) - 1))
             ult == s[Len(s)]
         IN IF \E i \in 1..Len(antes) : antes[i] = ult THEN antes
            ELSE Append(antes, ult)

\* Lines 37-40, 44-47, 58-61: df[cols].drop_duplicates(), id = index + 1.
DimTiempoLocal(filas) ==
    LET d == drop_duplicates([i \in 1..Len(filas) |-> ColsTiempo(filas[i])])
    IN [i \in 1..Len(d) |-> [id_tiempo |-> i] @@ d[i]]

DimDelitoLocal(filas) ==
    LET d == drop_duplicates([i \in 1..Len(filas) |-> ColsDelito(filas[i])])
    IN [i \in 1..Len(d) |-> [id_delito |-> i] @@ d[i]]

DimTipoCasoLocal(filas) ==
    LET d == drop_duplicates([i \in 1..Len(filas) |-> ColsTipoCaso(filas[i])])
    IN [i \in 1..Len(d) |-> [id_tipo_caso |-> i] @@ d[i]]

\* Lines 51-54: the location code itself, renamed, is the per-file id.
DimUbicacionLocal(filas) ==
    LET d == drop_duplicates([i \in 1..Len(filas) |-> ColsUbicacion(filas[i])])
    IN [i \in 1..Len(d) |-> [id_ubicacion |-> d[i].ubigeo_pjfs] @@ ColsNombres(d[i])]

\* Lines 67-94: the four left merges (a null key matches a null key), the
\* columns kept, id_denuncia = index + 1.
FactLocal(filas) ==
    LET dt == DimTiempoLocal(filas)
        dd == DimDelitoLocal(filas)
        du == DimUbicacionLocal(filas)
        dc == DimTipoCasoLocal(filas)
        hecho(i) ==
            LET r == filas[i]
                it == CHOOSE j \in 1..Len(dt) : ColsTiempo(dt[j]) = ColsTiempo(r)
                id == CHOOSE j \in 1..Len(dd) : ColsDelito(dd[j]) = ColsDelito(r)
                iu == CHOOSE j \in 1..Len(du) :
                          /\ du[j].id_ubicacion = r.ubigeo_pjfs
                          /\ ColsNombres(du[j]) = ColsNombres(r)
                ic == CHOOSE j \in 1..Len(dc) : ColsTipoCaso(dc[j]) = ColsTipoCaso(r)
            IN [id_denuncia |-> i, id_tiempo |-> dt[it].id_tiempo,
                id_delito |-> dd[id].id_delito,
                id_ubicacion |-> du[iu].id_ubicacion,
                id_tipo_caso |-> dc[ic].id_tipo_caso, cantidad |-> r.cantidad]
    IN [i \in 1..Len(filas) |-> hecho(i)]

\* The columns whose absence makes normalizar_datos_delitos raise KeyError:
\* lines 27-29, 38, 45, 52, 59 and 91 index every one of them.
ColumnasExigidas == Columnas

(***************************************************************************)
(* src/normalizar.py: the unification of one per-file table into the       *)
(* accumulated one (lines 130-179).                                        *)
(***************************************************************************)
ClaveUbicacionLocal(row) ==
    <<row.id_ubicacion, row.distrito_fiscal, row.dpto_pjfs, row.prov_pjfs, row.dist_pjfs>>

\* src/normalizar.py writes the location row without its code.
FilaDimUbicacionTP(id, row) ==
    [id_ubicacion |-> id, distrito_fiscal |-> row.distrito_fiscal,
     dpto_pjfs |-> row.dpto_pjfs, prov_pjfs |-> row.prov_pjfs,
     dist_pjfs |-> row.dist_pjfs]

ClaveLocal(dim, row) ==
    CASE dim = "tiempo" -> ClaveTiempo(row)
      [] dim = "delito" -> ClaveDelito(row)
      [] dim = "ubicacion" -> ClaveUbicacionLocal(row)
      [] dim = "tipocaso" -> ClaveTipoCaso(row)

FilaGlobal(dim, id, row) ==
    CASE dim = "tiempo" -> FilaDimTiempo(id, row)
      [] dim = "delito" -> FilaDimDelito(id, row)
      [] dim = "ubicacion" -> FilaDimUbicacionTP(id, row)
      [] dim = "tipocaso" -> FilaDimTipoCaso(id, row)

RECURSIVE Unificar(_, _, _)
Unificar(dim, reg, filas) ==
    IF filas = <<>> THEN reg
    ELSE Unificar(dim,
                  Registrar(reg, ClaveLocal(dim, Head(filas)),
                            FilaGlobal(dim, reg.next, Head(filas))),
                  Tail(filas))

\* Lines 195-202: the fact row carries the running counter, not the per-file
\* id_denuncia of the row it comes from.
\* A fact row that keeps the per-file id_denuncia.
HechoLocal(next, row, t, d, u, c) ==
    FilaHecho(row.id_denuncia, t, d, u, c, row.cantidad)

HechoGlobal(next, row, t, d, u, c) == FilaHecho(next, t, d, u, c, row.cantidad)

\* df.loc[df[col] == valor].iloc[0]: the first row whose column equals the
\* value; a NaN equals nothing.  <<>> stands for the IndexError of .iloc[0].
PrimeraCon(tabla, col, valor) ==
    LET es(i) == IF col = "id_ubicacion"
                 THEN ~IsNaN(valor) /\ tabla[i][col] = valor
                 ELSE tabla[i][col] = valor
        S == {i \in 1..Len(tabla) : es(i)}
    IN IF S = {} THEN <<>>
       ELSE <<tabla[CHOOSE i \in S : \A j \in S : i <= j]>>

(***************************************************************************)
(* src/data/poblacion/script.py: PoblacionPeruProcessor.  Text is a         *)
(* sequence of one-character strings; None is the empty sequence (no        *)
(* function below returns the empty string, and the code only tests         *)
(* `not ubigeo`, which holds of both).                                      *)
(***************************************************************************)
None == <<>>

\* str.strip() of a text whose only whitespace is the blank.
RECURSIVE lstrip(_)
lstrip(s) == IF s # <<>> /\ Head(s) = " " THEN lstrip(Tail(s)) ELSE s

RECURSIVE rstrip(_)
rstrip(s) ==
    IF s # <<>> /\ s[Len(s)] = " " THEN rstrip(SubSeq(s, 1, Len(s) - 1)) ELSE s

strip(s) == rstrip(lstrip(s))

\* The digits a text begins with.
RECURSIVE TomarDigitos(_)
TomarDigitos(s) ==
    IF s = <<>> \/ Head(s) \notin DigitSet THEN <<>>
    ELSE <<Head(s)>> \o TomarDigitos(Tail(s))

\* re.search(r'(\d+)', s).group(1): the first run of digits, <<>> for no match.
RECURSIVE re_search_digitos(_)
re_search_digitos(s) ==
    IF s = <<>> THEN <<>>
    ELSE IF Head(s) \in DigitSet THEN TomarDigitos(s)
    ELSE re_search_digitos(Tail(s))

\* Lines 98-125.
limpiar_ubigeo(ubigeo) ==
    IF ubigeo = <<>> THEN None
    ELSE LET codigo == re_search_digitos(strip(ubigeo))
         IN IF codigo = <<>> THEN None
            ELSE IF Len(codigo) \in {2, 4, 6} THEN zfill(codigo, 6)
            ELSE None

\* Lines 127-148.
determinar_tipo_region(ubigeo) ==
    IF ubigeo = None \/ Len(ubigeo) # 6 THEN "desconocido"
    ELSE IF SubSeq(ubigeo, 3, 6) = <<"0", "0", "0", "0">> THEN "departamento"
    ELSE IF SubSeq(ubigeo, 5, 6) = <<"0", "0">> THEN "provincia"
    ELSE "distrito"

\* Lines 150-167.
extraer_jerarquia(ubigeo) ==
    IF ubigeo = None \/ Len(ubigeo) # 6
    THEN [departamento |-> None, provincia |-> None, distrito |-> None]
    ELSE [departamento |-> SubSeq(ubigeo, 1, 2) \o <<"0", "0", "0", "0">>,
          provincia |-> SubSeq(ubigeo, 1, 4) \o <<"0", "0">>,
          distrito |-> ubigeo]

\* re.sub(r'\s+', ' ', s): every run of blanks becomes one blank.
RECURSIVE UnBlanco(_)
UnBlanco(s) ==
    IF s = <<>> THEN <<>>
    ELSE IF Head(s) = " " THEN <<" ">> \o UnBlanco(lstrip(s))
    ELSE <<Head(s)>> \o UnBlanco(Tail(s))

\* Lines 169-196, for names that hold letters and blanks only (the patterns
\* 'Continua', 'Creado <n>' and the leading number match nothing in them).
limpiar_nombre_region(nombre) == strip(UnBlanco(strip(nombre)))

\* The UBIGEO cells and the name cells of the sheet.
UbigeosCrudos ==
    { <<"1", "5">>, <<"1", "5", "0", "1">>, <<"1", "5", "0", "1", "0", "1">>,
      <<"1", "5", "0", "0", "0", "0">>, <<"1", "5", "0", "1", "0", "0">>,
      <<" ", "0", "8", " ">>, <<"1", "5", "-", "0", "1">>, <<"1", "5", "0">>,
      <<"L", "I", "M", "A">>, <<>> }

NombresCrudos == { <<"L", "I", "M", "A">>, <<" ", "L", "A", " ", " ", "M", "A", "R">>, <<" ">> }

\* A data row of the sheet: the UBIGEO cell, the name cell, no population cells.
FilasExcel == {<<u, n>> : u \in UbigeosCrudos, n \in NombresCrudos}

(***************************************************************************)
(* The run.                                                                *)
(***************************************************************************)
VARIABLES
    variante,            \* "single": src/data/normalizar.py, "two": src/normalizar.py
    pc,                  \* where the main block is
    pendientes,          \* the files the for loop has still to visit
    csv_input_file,      \* the loop variable
    df,                  \* single: the cleaned rows iterrows() has still to yield
    fact_denuncias,      \* two: the per-file fact rows iterrows() has still to yield
    dim_tiempo, dim_delito, dim_ubicacion, dim_tipo_caso,    \* two: per-file tables
    tiempo_map, delito_map, ubicacion_map, tipocaso_map,
    next_tiempo_id, next_delito_id, next_ubicacion_id, next_tipocaso_id,
    next_denuncia_id,
    all_dim_tiempo, all_dim_delito, all_dim_ubicacion, all_dim_tipocaso,
    all_fact_denuncias,
    normalizados,        \* the output directory: the five tables once written
    dir,                 \* what each file read so far holds
    resultado,           \* file -> "ok" (try block completed) or "error" (handler ran)
    al_inicio,           \* the accumulated state when the current file was begun
    corrida,             \* 1: the run; 2: the run repeated on the same files
    primera,             \* what the first run wrote
    df_raw,              \* script.py: the data rows iterrows() has still to yield
    ubigeo_raw, ubigeo, nombre, tipo_region, jerarquia,  \* locals of procesar_datos
    datos_procesados,
    departamentos, provincias, distritos,
    datos_limpios

\* The state of src/data/poblacion/script.py.
poblacion ==
    <<df_raw, ubigeo_raw, ubigeo, nombre, tipo_region, jerarquia,
      datos_procesados, departamentos, provincias, distritos, datos_limpios>>

locales == <<fact_denuncias, dim_tiempo, dim_delito, dim_ubicacion, dim_tipo_caso>>

mapas == <<tiempo_map, delito_map, ubicacion_map, tipocaso_map>>

contadores ==
    <<next_tiempo_id, next_delito_id, next_ubicacion_id, next_tipocaso_id,
      next_denuncia_id>>

tablas ==
    <<all_dim_tiempo, all_dim_delito, all_dim_ubicacion, all_dim_tipocaso,
      all_fact_denuncias>>

acumulado == <<mapas, contadores, tablas>>

vars ==
    <<variante, pc, pendientes, csv_input_file, df, locales, acumulado,
      normalizados, dir, resultado, al_inicio, corrida, primera, poblacion>>

Archivos == {2020 + i : i \in 0..(NArchivos - 1)}

RECURSIVE Permutaciones(_)
Permutaciones(S) ==
    IF S = {} THEN {<<>>}
    ELSE UNION {{<<x>> \o p : p \in Permutaciones(S \ {x})} : x \in S}

\* glob.glob('./[0-9][0-9][0-9][0-9].csv'): the matching files, in any order.
glob == Permutaciones(Archivos)

\* sorted(): names of four digits sort as their numbers do.
RECURSIVE Insertar(_, _)
Insertar(x, s) ==
    IF s = <<>> THEN <<x>>
    ELSE IF x <= Head(s) THEN <<x>> \o s
    ELSE <<Head(s)>> \o Insertar(x, Tail(s))

\* The files as glob returned them.
sin_ordenar(s) == s

RECURSIVE sorted(_)
sorted(s) == IF s = <<>> THEN <<>> ELSE Insertar(Head(s), sorted(Tail(s)))

Ilegible == [legible |-> FALSE, ausentes |-> {}, filas |-> <<>>]

RECURSIVE SumaFilas(_, _)
SumaFilas(d, S) ==
    IF S = {} THEN 0
    ELSE LET f == CHOOSE x \in S : TRUE
         IN Len(d[f].filas) + SumaFilas(d, S \ {f})

FilasLeidas == SumaFilas(dir, DOMAIN dir)

\* What pd.read_csv may find in file f: the first run reads any content within
\* the bound, the repeated run finds the file as the first run left it.
Opciones(f) ==
    IF f \in DOMAIN dir THEN {dir[f]}
    ELSE {Ilegible} \cup
         {[legible |-> TRUE] @@ c : c \in Contenidos(MaxFilas - FilasLeidas)}

Vacio == <<>>

\* script.py before procesar_datos has read a row.
SinPoblacion ==
    /\ df_raw = <<>>
    /\ ubigeo_raw = None /\ ubigeo = None /\ nombre = <<>>
    /\ tipo_region = "" /\ jerarquia = <<>>
    /\ datos_procesados = <<>>
    /\ departamentos = Vacio /\ provincias = Vacio /\ distritos = Vacio
    /\ datos_limpios = <<>>

Init ==
    /\ variante \in {"single", "two"}
    /\ pc = "for"
    /\ \E g \in glob : pendientes = sorted(g)
    /\ csv_input_file = 0
    /\ df = <<>>
    /\ fact_denuncias = <<>>
    /\ dim_tiempo = <<>> /\ dim_delito = <<>>
    /\ dim_ubicacion = <<>> /\ dim_tipo_caso = <<>>
    /\ tiempo_map = Vacio /\ delito_map = Vacio
    /\ ubicacion_map = Vacio /\ tipocaso_map = Vacio
    /\ next_tiempo_id = 1 /\ next_delito_id = 1
    /\ next_ubicacion_id = 1 /\ next_tipocaso_id = 1
    /\ next_denuncia_id = 1
    /\ all_dim_tiempo = <<>> /\ all_dim_delito = <<>>
    /\ all_dim_ubicacion = <<>> /\ all_dim_tipocaso = <<>>
    /\ all_fact_denuncias = <<>>
    /\ normalizados = <<>>
    /\ dir = Vacio
    /\ resultado = Vacio
    /\ al_inicio = <<<<Vacio, Vacio, Vacio, Vacio>>, <<1, 1, 1, 1, 1>>,
                     <<<<>>, <<>>, <<>>, <<>>, <<>>>>>>
    /\ corrida = 1
    /\ primera = <<>>
    /\ SinPoblacion

\* for csv_input_file in sorted(...): try: normalizar_datos_delitos(...)
\* (src/data/normalizar.py lines 82-85).  pd.read_csv raises on a file it
\* cannot parse; nothing else in the normalizer raises.
NormalizarSP ==
    /\ variante = "single"
    /\ pc = "for"
    /\ pendientes # <<>>
    /\ LET f == Head(pendientes)
       IN \E c \in Opciones(f) :
            /\ csv_input_file' = f
            /\ pendientes' = Tail(pendientes)
            /\ dir' = IF f \in DOMAIN dir THEN dir ELSE dir @@ (f :> c)
            /\ al_inicio' = acumulado
            /\ IF c.legible
               THEN df' = normalizar_datos_delitos(c) /\ pc' = "filas"
               ELSE df' = <<>> /\ pc' = "except"
    /\ UNCHANGED <<poblacion, variante, locales, acumulado, normalizados, resultado,
                   corrida, primera>>

\* The body of `for _, row in df.iterrows()` (src/data/normalizar.py lines
\* 87-171): the four dimensions, then the fact row.
ProcesarFila ==
    /\ variante = "single"
    /\ pc = "filas"
    /\ df # <<>>
    /\ LET row == Head(df)
           t == Registrar([map |-> tiempo_map, tabla |-> all_dim_tiempo,
                           next |-> next_tiempo_id],
                          ClaveTiempo(row), FilaDimTiempo(next_tiempo_id, row))
           d == Registrar([map |-> delito_map, tabla |-> all_dim_delito,
                           next |-> next_delito_id],
                          ClaveDelito(row), FilaDimDelito(next_delito_id, row))
           u == Registrar([map |-> ubicacion_map, tabla |-> all_dim_ubicacion,
                           next |-> next_ubicacion_id],
                          ClaveUbicacion(row),
                          FilaDimUbicacion(next_ubicacion_id, row))
           c == Registrar([map |-> tipocaso_map, tabla |-> all_dim_tipocaso,
                           next |-> next_tipocaso_id],
                          ClaveTipoCaso(row),
                          FilaDimTipoCaso(next_tipocaso_id, row))
       IN /\ tiempo_map' = t.map /\ all_dim_tiempo' = t.tabla
          /\ next_tiempo_id' = t.next
          /\ delito_map' = d.map /\ all_dim_delito' = d.tabla
          /\ next_delito_id' = d.next
          /\ ubicacion_map' = u.map /\ all_dim_ubicacion' = u.tabla
          /\ next_ubicacion_id' = u.next
          /\ tipocaso_map' = c.map /\ all_dim_tipocaso' = c.tabla
          /\ next_tipocaso_id' = c.next
          /\ all_fact_denuncias' =
                 Append(all_fact_denuncias,
                        FilaHecho(next_denuncia_id,
                                  t.map[ClaveTiempo(row)],
                                  d.map[ClaveDelito(row)],
                                  u.map[ClaveUbicacion(row)],
                                  c.map[ClaveTipoCaso(row)],
                                  row.cantidad))
          /\ next_denuncia_id' = next_denuncia_id + 1
          /\ df' = Tail(df)
    /\ UNCHANGED <<poblacion, variante, pc, pendientes, csv_input_file, locales,
                   normalizados, dir, resultado, al_inicio, corrida, primera>>

\* for csv_input_file in sorted(...): try: normalizar_datos_delitos(...)
\* (src/normalizar.py lines 124-128).  pd.read_csv raises on a file it cannot
\* parse, the normalizer raises KeyError on a missing column.
NormalizarTP ==
    /\ variante = "two"
    /\ pc = "for"
    /\ pendientes # <<>>
    /\ LET f == Head(pendientes)
       IN \E c \in Opciones(f) :
            /\ csv_input_file' = f
            /\ pendientes' = Tail(pendientes)
            /\ dir' = IF f \in DOMAIN dir THEN dir ELSE dir @@ (f :> c)
            /\ al_inicio' = acumulado
            /\ IF c.legible /\ c.ausentes \cap ColumnasExigidas = {}
               THEN LET filas == LeerTP(c, f)
                    IN /\ fact_denuncias' = FactLocal(filas)
                       /\ dim_tiempo' = DimTiempoLocal(filas)
                       /\ dim_delito' = DimDelitoLocal(filas)
                       /\ dim_ubicacion' = DimUbicacionLocal(filas)
                       /\ dim_tipo_caso' = DimTipoCasoLocal(filas)
                       /\ pc' = "unif_tiempo"
               ELSE /\ UNCHANGED locales
                    /\ pc' = "except"
    /\ UNCHANGED <<poblacion, variante, df, acumulado, normalizados, resultado, corrida,
                   primera>>

\* Lines 131-142.
UnificarTiempo ==
    /\ pc = "unif_tiempo"
    /\ LET t == Unificar("tiempo",
                         [map |-> tiempo_map, tabla |-> all_dim_tiempo,
                          next |-> next_tiempo_id], dim_tiempo)
       IN /\ tiempo_map' = t.map
          /\ all_dim_tiempo' = t.tabla
          /\ next_tiempo_id' = t.next
    /\ pc' = "unif_delito"
    /\ UNCHANGED <<poblacion, variante, pendientes, csv_input_file, df, locales,
                   delito_map, ubicacion_map, tipocaso_map,
                   next_delito_id, next_ubicacion_id, next_tipocaso_id,
                   next_denuncia_id,
                   all_dim_delito, all_dim_ubicacion, all_dim_tipocaso,
                   all_fact_denuncias,
                   normalizados, dir, resultado, al_inicio, corrida, primera>>

\* Lines 144-155.
UnificarDelito ==
    /\ pc = "unif_delito"
    /\ LET d == Unificar("delito",
                         [map |-> delito_map, tabla |-> all_dim_delito,
                          next |-> next_delito_id], dim_delito)
       IN /\ delito_map' = d.map
          /\ all_dim_delito' = d.tabla
          /\ next_delito_id' = d.next
    /\ pc' = "unif_ubicacion"
    /\ UNCHANGED <<poblacion, variante, pendientes, csv_input_file, df, locales,
                   tiempo_map, ubicacion_map, tipocaso_map,
                   next_tiempo_id, next_ubicacion_id, next_tipocaso_id,
                   next_denuncia_id,
                   all_dim_tiempo, all_dim_ubicacion, all_dim_tipocaso,
                   all_fact_denuncias,
                   normalizados, dir, resultado, al_inicio, corrida, primera>>

\* Lines 157-168.
UnificarUbicacion ==
    /\ pc = "unif_ubicacion"
    /\ LET u == Unificar("ubicacion",
                         [map |-> ubicacion_map, tabla |-> all_dim_ubicacion,
                          next |-> next_ubicacion_id], dim_ubicacion)
       IN /\ ubicacion_map' = u.map
          /\ all_dim_ubicacion' = u.tabla
          /\ next_ubicacion_id' = u.next
    /\ pc' = "unif_tipocaso"
    /\ UNCHANGED <<poblacion, variante, pendientes, csv_input_file, df, locales,
                   tiempo_map, delito_map, tipocaso_map,
                   next_tiempo_id, next_delito_id, next_tipocaso_id,
                   next_denuncia_id,
                   all_dim_tiempo, all_dim_delito, all_dim_tipocaso,
                   all_fact_denuncias,
                   normalizados, dir, resultado, al_inicio, corrida, primera>>

\* Lines 170-179.
UnificarTipoCaso ==
    /\ pc = "unif_tipocaso"
    /\ LET c == Unificar("tipocaso",
                         [map |-> tipocaso_map, tabla |-> all_dim_tipocaso,
                          next |-> next_tipocaso_id], dim_tipo_caso)
       IN /\ tipocaso_map' = c.map
          /\ all_dim_tipocaso' = c.tabla
          /\ next_tipocaso_id' = c.next
    /\ pc' = "hechos"
    /\ UNCHANGED <<poblacion, variante, pendientes, csv_input_file, df, locales,
                   tiempo_map, delito_map, ubicacion_map,
                   next_tiempo_id, next_delito_id, next_ubicacion_id,
                   next_denuncia_id,
                   all_dim_tiempo, all_dim_delito, all_dim_ubicacion,
                   all_fact_denuncias,
                   normalizados, dir, resultado, al_inicio, corrida, primera>>

\* The body of `for _, row in fact_denuncias.iterrows()` (lines 181-203): each
\* local id is traced back to its per-file row, the row's key is looked up in
\* the global map.  .iloc[0] of an empty selection raises IndexError, a key
\* the map lacks raises KeyError; both leave the loop for the handler.
UnificarHecho ==
    /\ pc = "hechos"
    /\ fact_denuncias # <<>>
    /\ LET row == Head(fact_denuncias)
           tiempo_row == PrimeraCon(dim_tiempo, "id_tiempo", row.id_tiempo)
           delito_row == PrimeraCon(dim_delito, "id_delito", row.id_delito)
           ubicacion_row ==
               PrimeraCon(dim_ubicacion, "id_ubicacion", row.id_ubicacion)
           tipocaso_row ==
               PrimeraCon(dim_tipo_caso, "id_tipo_caso", row.id_tipo_caso)
           lanza ==
               \/ tiempo_row = <<>>
               \/ ClaveTiempo(tiempo_row[1]) \notin DOMAIN tiempo_map
               \/ delito_row = <<>>
               \/ ClaveDelito(delito_row[1]) \notin DOMAIN delito_map
               \/ ubicacion_row = <<>>
               \/ ClaveUbicacionLocal(ubicacion_row[1]) \notin DOMAIN ubicacion_map
               \/ tipocaso_row = <<>>
               \/ ClaveTipoCaso(tipocaso_row[1]) \notin DOMAIN tipocaso_map
       IN IF lanza
          THEN /\ pc' = "except"
               /\ UNCHANGED <<fact_denuncias, all_fact_denuncias, next_denuncia_id>>
          ELSE /\ all_fact_denuncias' =
                     Append(all_fact_denuncias,
                            HechoGlobal(next_denuncia_id, row,
                                tiempo_map[ClaveTiempo(tiempo_row[1])],
                                delito_map[ClaveDelito(delito_row[1])],
                                ubicacion_map[ClaveUbicacionLocal(ubicacion_row[1])],
                                tipocaso_map[ClaveTipoCaso(tipocaso_row[1])]))
               /\ next_denuncia_id' = next_denuncia_id + 1
               /\ fact_denuncias' = Tail(fact_denuncias)
               /\ pc' = pc
    /\ UNCHANGED <<poblacion, variante, pendientes, csv_input_file, df,
                   dim_tiempo, dim_delito, dim_ubicacion, dim_tipo_caso,
                   mapas,
                   next_tiempo_id, next_delito_id, next_ubicacion_id,
                   next_tipocaso_id,
                   all_dim_tiempo, all_dim_delito, all_dim_ubicacion,
                   all_dim_tipocaso,
                   normalizados, dir, resultado, al_inicio, corrida, primera>>

\* The try block ran to its end: back to the for statement.
FinArchivo ==
    /\ \/ pc = "filas" /\ df = <<>>
       \/ pc = "hechos" /\ fact_denuncias = <<>>
    /\ pc' = "for"
    /\ resultado' = [f \in DOMAIN resultado \cup {csv_input_file} |->
                        IF f = csv_input_file THEN "ok" ELSE resultado[f]]
    /\ UNCHANGED <<poblacion, variante, pendientes, csv_input_file, df, locales, acumulado,
                   normalizados, dir, al_inicio, corrida, primera>>

\* A handler that reports and raises again: the run ends there.
ExceptAborta ==
    /\ pc = "except"
    /\ pc' = "abortado"
    /\ resultado' = [f \in DOMAIN resultado \cup {csv_input_file} |->
                        IF f = csv_input_file THEN "error" ELSE resultado[f]]
    /\ UNCHANGED <<poblacion, variante, pendientes, csv_input_file, df, locales, acumulado,
                   normalizados, dir, al_inicio, corrida, primera>>

\* except Exception as e: print(...) -- the handler only reports.
Except ==
    /\ pc = "except"
    /\ pc' = "for"
    /\ resultado' = [f \in DOMAIN resultado \cup {csv_input_file} |->
                        IF f = csv_input_file THEN "error" ELSE resultado[f]]
    /\ UNCHANGED <<poblacion, variante, pendientes, csv_input_file, df, locales, acumulado,
                   normalizados, dir, al_inicio, corrida, primera>>

\* After the loop: the five tables are written to normalizados/.
Guardar ==
    /\ pc = "for"
    /\ pendientes = <<>>
    /\ normalizados' = tablas
    /\ pc' = "fin"
    /\ UNCHANGED <<poblacion, variante, pendientes, csv_input_file, df, locales, acumulado,
                   dir, resultado, al_inicio, corrida, primera>>

\* The pipeline is run again, from empty state, over the same files.
Relanzar ==
    /\ pc = "fin"
    /\ corrida = 1
    /\ corrida' = 2
    /\ primera' = <<mapas, tablas>>
    /\ \E g \in glob : pendientes' = sorted(g)
    /\ pc' = "for"
    /\ csv_input_file' = 0
    /\ df' = <<>>
    /\ fact_denuncias' = <<>>
    /\ dim_tiempo' = <<>> /\ dim_delito' = <<>>
    /\ dim_ubicacion' = <<>> /\ dim_tipo_caso' = <<>>
    /\ tiempo_map' = Vacio /\ delito_map' = Vacio
    /\ ubicacion_map' = Vacio /\ tipocaso_map' = Vacio
    /\ next_tiempo_id' = 1 /\ next_delito_id' = 1
    /\ next_ubicacion_id' = 1 /\ next_tipocaso_id' = 1
    /\ next_denuncia_id' = 1
    /\ all_dim_tiempo' = <<>> /\ all_dim_delito' = <<>>
    /\ all_dim_ubicacion' = <<>> /\ all_dim_tipocaso' = <<>>
    /\ all_fact_denuncias' = <<>>
    /\ normalizados' = <<>>
    /\ resultado' = Vacio
    /\ al_inicio' = <<<<Vacio, Vacio, Vacio, Vacio>>, <<1, 1, 1, 1, 1>>,
                      <<<<>>, <<>>, <<>>, <<>>, <<>>>>>>
    /\ UNCHANGED <<poblacion, variante, dir>>

Next ==
    \/ NormalizarSP
    \/ ProcesarFila
    \/ NormalizarTP
    \/ UnificarTiempo
    \/ UnificarDelito
    \/ UnificarUbicacion
    \/ UnificarTipoCaso
    \/ UnificarHecho
    \/ FinArchivo
    \/ Except
    \/ Guardar

Spec == Init /\ [][Next]_vars

\* The main block is straight-line code: whatever statement is next runs.
SpecJusta == Spec /\ WF_vars(Next)

NextRepetida == Next \/ Relanzar

\* One run followed by a second run over the same files.
SpecRepetida == Init /\ [][NextRepetida]_vars

\* The other variant of the pipeline is run, from empty state, over the same
\* files.
OtraVariante ==
    /\ pc = "fin"
    /\ corrida = 1
    /\ corrida' = 2
    /\ variante' = IF variante = "single" THEN "two" ELSE "single"
    /\ primera' = <<mapas, tablas>>
    /\ \E g \in glob : pendientes' = sorted(g)
    /\ pc' = "for"
    /\ csv_input_file' = 0
    /\ df' = <<>>
    /\ fact_denuncias' = <<>>
    /\ dim_tiempo' = <<>> /\ dim_delito' = <<>>
    /\ dim_ubicacion' = <<>> /\ dim_tipo_caso' = <<>>
    /\ tiempo_map' = Vacio /\ delito_map' = Vacio
    /\ ubicacion_map' = Vacio /\ tipocaso_map' = Vacio
    /\ next_tiempo_id' = 1 /\ next_delito_id' = 1
    /\ next_ubicacion_id' = 1 /\ next_tipocaso_id' = 1
    /\ next_denuncia_id' = 1
    /\ all_dim_tiempo' = <<>> /\ all_dim_delito' = <<>>
    /\ all_dim_ubicacion' = <<>> /\ all_dim_tipocaso' = <<>>
    /\ all_fact_denuncias' = <<>>
    /\ normalizados' = <<>>
    /\ resultado' = Vacio
    /\ al_inicio' = <<<<Vacio, Vacio, Vacio, Vacio>>, <<1, 1, 1, 1, 1>>,
                      <<<<>>, <<>>, <<>>, <<>>, <<>>>>>>
    /\ UNCHANGED <<poblacion, dir>>

NextComparada == Next \/ OtraVariante

\* One variant run over the files, then the other variant over the same files.
SpecComparada == Init /\ [][NextComparada]_vars
(***************************************************************************)
(* src/data/poblacion/script.py: procesar_datos, from the first data row   *)
(* after the header on.                                                    *)
(***************************************************************************)
InitPoblacion ==
    /\ variante = "poblacion"
    /\ pc = "registros"
    /\ pendientes = <<>>
    /\ csv_input_file = 0
    /\ df = <<>>
    /\ fact_denuncias = <<>>
    /\ dim_tiempo = <<>> /\ dim_delito = <<>>
    /\ dim_ubicacion = <<>> /\ dim_tipo_caso = <<>>
    /\ tiempo_map = Vacio /\ delito_map = Vacio
    /\ ubicacion_map = Vacio /\ tipocaso_map = Vacio
    /\ next_tiempo_id = 1 /\ next_delito_id = 1
    /\ next_ubicacion_id = 1 /\ next_tipocaso_id = 1
    /\ next_denuncia_id = 1
    /\ all_dim_tiempo = <<>> /\ all_dim_delito = <<>>
    /\ all_dim_ubicacion = <<>> /\ all_dim_tipocaso = <<>>
    /\ all_fact_denuncias = <<>>
    /\ normalizados = <<>>
    /\ dir = Vacio
    /\ resultado = Vacio
    /\ al_inicio = <<>>
    /\ corrida = 1
    /\ primera = <<>>
    /\ df_raw \in SeqsHasta(FilasExcel, MaxRegistros)
    /\ ubigeo_raw = None /\ ubigeo = None /\ nombre = <<>>
    /\ tipo_region = "" /\ jerarquia = <<>>
    /\ datos_procesados = <<>>
    /\ departamentos = Vacio /\ provincias = Vacio /\ distritos = Vacio
    /\ datos_limpios = <<>>

\* self.departamentos[ubigeo] = nombre
Asignar(d, k, v) == [x \in DOMAIN d \cup {k} |-> IF x = k THEN v ELSE d[x]]

\* The body of `for idx, row in df_raw.iterrows()` (lines 246-301) on a row of
\* two cells: the five population fields are None.  A `continue` leaves the
\* locals assigned further down as the previous row left them.
ProcesarRegistro ==
    /\ pc = "registros"
    /\ df_raw # <<>>
    /\ LET row == Head(df_raw)
           u == limpiar_ubigeo(row[1])
           n == limpiar_nombre_region(row[2])
           t == determinar_tipo_region(u)
           j == extraer_jerarquia(u)
           registro ==
               [ubigeo |-> u, nombre |-> n, tipo_region |-> t,
                cod_departamento |-> j.departamento,
                cod_provincia |-> j.provincia,
                cod_distrito |-> j.distrito,
                poblacion_2018 |-> None, poblacion_2019 |-> None,
                poblacion_2020 |-> None, poblacion_2021 |-> None,
                poblacion_2022 |-> None]
       IN /\ ubigeo_raw' = row[1]
          /\ ubigeo' = u
          /\ df_raw' = Tail(df_raw)
          /\ IF u = None
             THEN UNCHANGED <<nombre, tipo_region, jerarquia, datos_procesados,
                              departamentos, provincias, distritos>>
             ELSE /\ nombre' = n
                  /\ IF n = <<>>
                     THEN UNCHANGED <<tipo_region, jerarquia, datos_procesados,
                                      departamentos, provincias, distritos>>
                     ELSE /\ tipo_region' = t
                          /\ jerarquia' = j
                          /\ datos_procesados' = Append(datos_procesados, registro)
                          /\ departamentos' =
                                 IF t = "departamento"
                                 THEN Asignar(departamentos, u, n) ELSE departamentos
                          /\ provincias' =
                                 IF t = "provincia"
                                 THEN Asignar(provincias, u, n) ELSE provincias
                          /\ distritos' =
                                 IF t = "distrito"
                                 THEN Asignar(distritos, u, n) ELSE distritos
    /\ UNCHANGED <<variante, pc, pendientes, csv_input_file, df, locales,
                   acumulado, normalizados, dir, resultado, al_inicio, corrida,
                   primera, datos_limpios>>

\* Series.map(dict): the value under the key, NaN for a key the dict lacks.
map(d, k) == IF k \in DOMAIN d THEN d[k] ELSE NaN

\* Lines 303-317: the records become the frame, the names of the department
\* and of the province are looked up.  A frame built from no record has no
\* column, and indexing 'cod_departamento' raises KeyError.
CrearDataFrame ==
    /\ pc = "registros"
    /\ df_raw = <<>>
    /\ IF datos_procesados = <<>>
       THEN pc' = "KeyError" /\ UNCHANGED datos_limpios
       ELSE /\ pc' = "procesado"
            /\ datos_limpios' =
                   [i \in 1..Len(datos_procesados) |->
                       [nombre_departamento |->
                            map(departamentos, datos_procesados[i].cod_departamento),
                        nombre_provincia |->
                            map(provincias, datos_procesados[i].cod_provincia)]
                       @@ datos_procesados[i]]
    /\ UNCHANGED <<variante, pendientes, csv_input_file, df, locales,
                   acumulado, normalizados, dir, resultado, al_inicio, corrida,
                   primera, df_raw, ubigeo_raw, ubigeo, nombre, tipo_region,
                   jerarquia, datos_procesados, departamentos, provincias,
                   distritos>>

NextPoblacion == ProcesarRegistro \/ CrearDataFrame

SpecPoblacion == InitPoblacion /\ [][NextPoblacion]_vars

(***************************************************************************)
(* Properties.                                                             *)
(***************************************************************************)
\* The attributes of a dimension row: every column but its identifier.
Atributos(fila, idcampo) == [c \in DOMAIN fila \ {idcampo} |-> fila[c]]

SinDuplicados(tabla, idcampo) ==
    \A i, j \in 1..Len(tabla) :
        i # j => Atributos(tabla[i], idcampo) # Atributos(tabla[j], idcampo)

Ids(tabla, idcampo) == {tabla[i][idcampo] : i \in 1..Len(tabla)}

\* The rows of file f the pipeline got to see: none of a file the normalizer
\* raised on.
FilasVistas(f) ==
    IF ~dir[f].legible THEN <<>>
    ELSE IF variante = "single" THEN normalizar_datos_delitos(dir[f])
    ELSE IF dir[f].ausentes \cap ColumnasExigidas # {} THEN <<>>
    ELSE LeerTP(dir[f], f)

ClaveDe(dim, row) ==
    CASE dim = "tiempo" -> ClaveTiempo(row)
      [] dim = "delito" -> ClaveDelito(row)
      [] dim = "ubicacion" -> ClaveUbicacion(row)
      [] dim = "tipocaso" -> ClaveTipoCaso(row)

Dimensiones == {"tiempo", "delito", "ubicacion", "tipocaso"}

MapaDe(dim) ==
    CASE dim = "tiempo" -> tiempo_map
      [] dim = "delito" -> delito_map
      [] dim = "ubicacion" -> ubicacion_map
      [] dim = "tipocaso" -> tipocaso_map

TablaDe(dim) ==
    CASE dim = "tiempo" -> all_dim_tiempo
      [] dim = "delito" -> all_dim_delito
      [] dim = "ubicacion" -> all_dim_ubicacion
      [] dim = "tipocaso" -> all_dim_tipocaso

ContadorDe(dim) ==
    CASE dim = "tiempo" -> next_tiempo_id
      [] dim = "delito" -> next_delito_id
      [] dim = "ubicacion" -> next_ubicacion_id
      [] dim = "tipocaso" -> next_tipocaso_id

IdCampo(dim) ==
    CASE dim = "tiempo" -> "id_tiempo"
      [] dim = "delito" -> "id_delito"
      [] dim = "ubicacion" -> "id_ubicacion"
      [] dim = "tipocaso" -> "id_tipo_caso"

\* The files the loop is done with, in lexicographic order of their names.
Terminados == sorted(CHOOSE p \in Permutaciones(DOMAIN resultado) : TRUE)

\* The keys of dimension dim in the order the rows came: the files done, in
\* name order, each in row order; in the single-pass variant also the rows
\* of the current file the row loop has consumed.
RECURSIVE ClavesDeArchivos(_, _)
ClavesDeArchivos(dim, fs) ==
    IF fs = <<>> THEN <<>>
    ELSE LET filas == FilasVistas(Head(fs))
         IN [i \in 1..Len(filas) |-> ClaveDe(dim, filas[i])]
            \o ClavesDeArchivos(dim, Tail(fs))

ClavesEnCurso(dim) ==
    IF variante = "single" /\ pc = "filas"
    THEN LET filas == FilasVistas(csv_input_file)
         IN [i \in 1..(Len(filas) - Len(df)) |-> ClaveDe(dim, filas[i])]
    ELSE <<>>

Observadas(dim) == ClavesDeArchivos(dim, Terminados) \o ClavesEnCurso(dim)

----------------------------------------------------------------------------
\* C1 (as claimed): in both variants, none of the four dimension tables holds
\* two rows with the same natural-key tuple (the same attributes under two
\* identifiers).
C1_DimensionesSinDuplicados ==
    \A dim \in Dimensiones : SinDuplicados(TablaDe(dim), IdCampo(dim))

\* C2: every foreign key of every accumulated fact row is the identifier of a
\* row already in the corresponding accumulated dimension table, in every
\* state of the run, failed files included.
C2_IntegridadReferencial ==
    \A i \in 1..Len(all_fact_denuncias) :
        \A dim \in Dimensiones :
            all_fact_denuncias[i][IdCampo(dim)] \in Ids(TablaDe(dim), IdCampo(dim))

C2_Testigo ==
    /\ Len(all_fact_denuncias) >= 1
    /\ \E f \in DOMAIN resultado : resultado[f] = "error"
    /\ pc = "fin"

UnaFilaPorClave ==
    \A dim \in Dimensiones :
        \A k \in DOMAIN MapaDe(dim) :
            LET filas == {j \in 1..Len(TablaDe(dim)) :
                             TablaDe(dim)[j][IdCampo(dim)] = MapaDe(dim)[k]}
            IN /\ Cardinality(filas) = 1
               /\ \A k2 \in DOMAIN MapaDe(dim) :
                      MapaDe(dim)[k2] = MapaDe(dim)[k] => k2 = k
               /\ \A j \in filas :
                      IF dim = "ubicacion" /\ variante = "two"
                      THEN ClaveUbicacionLocal([TablaDe(dim)[j] EXCEPT
                                                   !.id_ubicacion = k[1]]) = k
                      ELSE ClaveDe(dim, TablaDe(dim)[j]) = k

\* A step of the single-pass row loop on a row whose key is registered leaves
\* the dimension as it is and gives the fact row the registered identifier.
ResuelveSP(dim) ==
    LET key == ClaveDe(dim, Head(df))
    IN key \in DOMAIN MapaDe(dim) =>
          /\ MapaDe(dim)' = MapaDe(dim)
          /\ TablaDe(dim)' = TablaDe(dim)
          /\ ContadorDe(dim)' = ContadorDe(dim)
          /\ all_fact_denuncias'[Len(all_fact_denuncias')][IdCampo(dim)]
                 = MapaDe(dim)[key]

\* A unification step of the two-phase variant: the registered keys keep their
\* identifiers, and the table and the counter grow by the new keys only.
ResuelveTP(dim, local) ==
    LET claves == {ClaveLocal(dim, local[i]) : i \in 1..Len(local)}
        nuevas == claves \ DOMAIN MapaDe(dim)
    IN /\ \A k \in DOMAIN MapaDe(dim) :
              k \in DOMAIN MapaDe(dim)' /\ MapaDe(dim)'[k] = MapaDe(dim)[k]
       /\ DOMAIN MapaDe(dim)' = DOMAIN MapaDe(dim) \cup nuevas
       /\ Len(TablaDe(dim)') = Len(TablaDe(dim)) + Cardinality(nuevas)
       /\ SubSeq(TablaDe(dim)', 1, Len(TablaDe(dim))) = TablaDe(dim)
       /\ ContadorDe(dim)' = ContadorDe(dim) + Cardinality(nuevas)

\* A fact step of the two-phase variant registers nothing, and the fact row
\* carries the identifier registered for the key of its per-file row.
ResuelveHechoTP ==
    /\ UNCHANGED <<mapas, next_tiempo_id, next_delito_id, next_ubicacion_id,
                   next_tipocaso_id, all_dim_tiempo, all_dim_delito,
                   all_dim_ubicacion, all_dim_tipocaso>>
    /\ pc' = "hechos" =>
          LET row == Head(fact_denuncias)
              hecho == all_fact_denuncias'[Len(all_fact_denuncias')]
          IN /\ hecho.id_tiempo = tiempo_map[ClaveTiempo(dim_tiempo[row.id_tiempo])]
             /\ hecho.id_delito = delito_map[ClaveDelito(dim_delito[row.id_delito])]
             /\ hecho.id_tipo_caso =
                    tipocaso_map[ClaveTipoCaso(dim_tipo_caso[row.id_tipo_caso])]
             /\ \E k \in DOMAIN ubicacion_map :
                    k[1] = row.id_ubicacion /\ hecho.id_ubicacion = ubicacion_map[k]

C4_Paso ==
    /\ UnaFilaPorClave'
    /\ (variante = "single" /\ pc = "filas" /\ df # <<>>) =>
           \A dim \in Dimensiones : ResuelveSP(dim)
    /\ pc = "unif_tiempo" => ResuelveTP("tiempo", dim_tiempo)
    /\ pc = "unif_delito" => ResuelveTP("delito", dim_delito)
    /\ pc = "unif_ubicacion" => ResuelveTP("ubicacion", dim_ubicacion)
    /\ pc = "unif_tipocaso" => ResuelveTP("tipocaso", dim_tipo_caso)
    /\ (pc = "hechos" /\ fact_denuncias # <<>>) => ResuelveHechoTP

RECURSIVE SumaLimpias(_)
SumaLimpias(S) ==
    IF S = {} THEN 0
    ELSE LET f == CHOOSE x \in S : TRUE
         IN Len(FilasVistas(f)) + SumaLimpias(S \ {f})

\* C5 (as claimed): at the end of the run the fact table has as many rows as
\* the files that did not fail have cleaned rows.
C5_HechosPorFilaLimpia ==
    pc = "fin" =>
        Len(all_fact_denuncias) =
            SumaLimpias({f \in DOMAIN resultado : resultado[f] = "ok"})

\* C6: id_denuncia is one running counter over the whole run: the k-th fact
\* row appended has id_denuncia = k, whatever file it came from, and the
\* counter is one past the last row.
C6_ContadorCorrido ==
    /\ \A k \in 1..Len(all_fact_denuncias) : all_fact_denuncias[k].id_denuncia = k
    /\ next_denuncia_id = Len(all_fact_denuncias) + 1

\* A fact row from each of two files.
C6_Testigo ==
    /\ pc = "fin"
    /\ \A f \in Archivos : f \in DOMAIN dir /\ Len(dir[f].filas) = 1
    /\ Len(all_fact_denuncias) = 2

\* C7 (as claimed): once the handler has run for a file, the maps, the
\* counters and the tables are what they were when that file was begun.
C7_ArchivoFallidoSinHuella ==
    (/\ pc = "for"
     /\ csv_input_file \in DOMAIN resultado
     /\ resultado[csv_input_file] = "error") => acumulado = al_inicio

\* C8: whatever files fail, the run goes on to the end: every file is visited
\* and the five tables are written.
C8_LaCorridaTermina ==
    <>(pc = "fin" /\ DOMAIN resultado = Archivos /\ normalizados = tablas)

\* The first file fails, the second is processed and its rows are written.
C8_Testigo ==
    /\ pc = "fin"
    /\ 2020 \in DOMAIN resultado /\ resultado[2020] = "error"
    /\ 2021 \in DOMAIN resultado /\ resultado[2021] = "ok"
    /\ Len(normalizados[5]) >= 1

\* C9: a second run from empty state over the same files ends with the same
\* key-to-identifier maps and the same tables, fact rows included, whatever
\* order glob listed the files in.
C9_MismaSalida ==
    (corrida = 2 /\ pc = "fin") => primera = <<mapas, tablas>>

C9_Testigo ==
    /\ corrida = 2
    /\ pc = "fin"
    /\ Len(all_fact_denuncias) = 2
    /\ next_delito_id = 3
    /\ \A f \in Archivos : Len(dir[f].filas) = 1

\* A raw code the claim calls unparseable: not a number, or over six characters.
NoInterpretable(celda) == celda # <<>> /\ (~IsDigits(celda) \/ Len(celda) > 6)

\* C10 (as claimed): after the Record Normalizer every location code is six
\* digits; a raw 5 is "000005", a missing or unparseable raw value is "000000".
C10_CodigoDeSeisDigitos ==
    (variante = "single" /\ pc = "filas") =>
        /\ \A i \in 1..Len(df) :
               Len(df[i].ubigeo_pjfs) = 6 /\ IsDigits(df[i].ubigeo_pjfs)
        /\ LET crudas == dir[csv_input_file].filas
           IN Len(df) = Len(crudas) =>
                 \A i \in 1..Len(df) :
                     /\ crudas[i].ubigeo_pjfs = <<"5">> =>
                            df[i].ubigeo_pjfs = <<"0", "0", "0", "0", "0", "5">>
                     /\ (\/ crudas[i].ubigeo_pjfs = <<>>
                         \/ NoInterpretable(crudas[i].ubigeo_pjfs)) =>
                            df[i].ubigeo_pjfs = <<"0", "0", "0", "0", "0", "0">>

(***************************************************************************)
(* The fact rows and the input rows they were emitted for.                 *)
(***************************************************************************)
\* The rows of file f the pipeline got to see, each with the raw row it was
\* read from and the columns the file lacks.
Pares(f) ==
    LET vistas == FilasVistas(f)
    IN [i \in 1..Len(vistas) |->
           [cruda |-> dir[f].filas[i], ausentes |-> dir[f].ausentes,
            vista |-> vistas[i]]]

RECURSIVE ParesDeArchivos(_)
ParesDeArchivos(fs) ==
    IF fs = <<>> THEN <<>>
    ELSE (IF resultado[Head(fs)] = "ok" THEN Pares(Head(fs)) ELSE <<>>)
         \o ParesDeArchivos(Tail(fs))

\* How many rows of the file in hand the row loop has emitted a fact for.
HechosEnCurso ==
    IF variante = "single" /\ pc = "filas"
    THEN Len(FilasVistas(csv_input_file)) - Len(df)
    ELSE IF variante = "two" /\ pc = "hechos"
    THEN Len(FilasVistas(csv_input_file)) - Len(fact_denuncias)
    ELSE 0

\* The rows a fact was emitted for, in order: those of the files processed to
\* the end, then those of the file in hand.
ConHecho ==
    ParesDeArchivos(Terminados)
    \o (IF HechosEnCurso = 0 THEN <<>>
        ELSE SubSeq(Pares(csv_input_file), 1, HechosEnCurso))

\* The k-th fact row is the fact of the k-th row of ConHecho (not so once a
\* file has failed after some of its facts were appended).
Emparejadas == Len(all_fact_denuncias) = Len(ConHecho)

\* The cell of column col is not there to be read, or holds nothing usable.
CeldaNula(par, col) ==
    \/ col \in par.ausentes
    \/ CASE col \in {"Fecha_descarga", "fecha_corte"} -> to_datetime(par.cruda[col]) = NaT
         [] col = "ubigeo_pjfs" -> par.cruda[col] = <<>>
         [] col \in {"anio_denuncia", "cantidad"} -> IsNaN(par.cruda[col])
         [] OTHER -> IsNullStr(par.cruda[col])

\* File f is legible and nothing is missing from it but cells of the columns cols.
SoloFalta(f, cols) ==
    /\ dir[f].legible
    /\ dir[f].ausentes \subseteq cols
    /\ \A i \in 1..Len(dir[f].filas) :
           \A c \in Columnas \ cols :
               ~CeldaNula([cruda |-> dir[f].filas[i], ausentes |-> dir[f].ausentes], c)

\* Some cell of the columns cols is missing from file f.
AlgoFalta(f, cols) ==
    \E i \in 1..Len(dir[f].filas) :
        \E c \in cols :
            CeldaNula([cruda |-> dir[f].filas[i], ausentes |-> dir[f].ausentes], c)

\* C11 (as claimed): the fact row of a row whose cantidad is missing (an empty
\* cell, or the column absent from the file) has cantidad = 0, and a file that
\* misses nothing but cantidad is not a failed file.
C11_CantidadFaltanteEsCero ==
    /\ Emparejadas =>
           \A k \in 1..Len(ConHecho) :
               CeldaNula(ConHecho[k], "cantidad") =>
                   all_fact_denuncias[k].cantidad = Num(0)
    /\ \A f \in DOMAIN resultado :
           (SoloFalta(f, {"cantidad"}) /\ AlgoFalta(f, {"cantidad"})) =>
               resultado[f] = "ok"

\* The row of a dimension table that carries an identifier.
FilasConId(dim, id) ==
    {j \in 1..Len(TablaDe(dim)) : TablaDe(dim)[j][IdCampo(dim)] = id}

\* C12 (as claimed): the Time-dimension entry of a row whose Fecha_descarga or
\* fecha_corte is missing or is no day/month/year date carries 1900-01-01 in
\* that field, and a file that misses nothing but dates is not a failed file.
C12_FechaFaltantePorDefecto ==
    /\ Emparejadas =>
           \A k \in 1..Len(ConHecho) :
               \A c \in {"Fecha_descarga", "fecha_corte"} :
                   CeldaNula(ConHecho[k], c) =>
                       \A j \in FilasConId("tiempo", all_fact_denuncias[k].id_tiempo) :
                           all_dim_tiempo[j][c] = FechaDefecto
    /\ \A f \in DOMAIN resultado :
           (/\ SoloFalta(f, {"Fecha_descarga", "fecha_corte"})
            /\ AlgoFalta(f, {"Fecha_descarga", "fecha_corte"})) =>
               resultado[f] = "ok"

\* C13 (as claimed): a file that lacks a critical column is not a failed file:
\* the Record Normalizer gives every row the column's default, and every row
\* of the file has its fact row once the file is done.
C13_ColumnaAusentePorDefecto ==
    /\ (/\ variante = "single" /\ pc = "filas"
        /\ Len(df) = Len(dir[csv_input_file].filas)) =>
           \A i \in 1..Len(df) :
               \A c \in dir[csv_input_file].ausentes :
                   df[i][c] = columnas_criticas(c)
    /\ (/\ pc = "for"
        /\ csv_input_file \in DOMAIN resultado
        /\ dir[csv_input_file].legible
        /\ dir[csv_input_file].ausentes # {}) =>
           /\ resultado[csv_input_file] = "ok"
           /\ Len(all_fact_denuncias) =
                  Len(al_inicio[3][5]) + Len(dir[csv_input_file].filas)

\* The string categorical columns.
ColumnasDeTexto ==
    {"periodo_denuncia", "generico", "subgenerico", "articulo", "des_articulo",
     "distrito_fiscal", "dpto_pjfs", "prov_pjfs", "dist_pjfs",
     "tipo_caso", "especialidad"}

\* The string components of a key of dimension dim.
TextosDeClave(dim, k) ==
    CASE dim = "tiempo" -> {k[3]}
      [] dim = "delito" -> {k[1], k[2], k[3], k[4]}
      [] dim = "ubicacion" -> {k[2], k[3], k[4], k[5]}
      [] dim = "tipocaso" -> {k[1], k[2]}

\* C14 (as claimed): after the Record Normalizer no string categorical column
\* holds a null, so no key of a dimension map holds a null.
C14_SinNulosDeTexto ==
    /\ (variante = "single" /\ pc = "filas") =>
           \A i \in 1..Len(df) :
               \A c \in ColumnasDeTexto : ~IsNullStr(df[i][c])
    /\ \A dim \in Dimensiones :
           \A k \in DOMAIN MapaDe(dim) :
               \A s \in TextosDeClave(dim, k) : ~IsNullStr(s)

\* C15 (as claimed): the fact row of a row references, in each dimension, a
\* dimension row whose attributes are the row's own attributes for the
\* dimension (the two-phase location row carries the four names only).
C15_HechoApuntaASuFila ==
    Emparejadas =>
        \A k \in 1..Len(ConHecho) :
            \A dim \in Dimensiones :
                \E j \in FilasConId(dim, all_fact_denuncias[k][IdCampo(dim)]) :
                    \A c \in DOMAIN TablaDe(dim)[j] \ {IdCampo(dim)} :
                        TablaDe(dim)[j][c] = ConHecho[k].vista[c]

IsPrefix(s, u) == Len(s) <= Len(u) /\ SubSeq(u, 1, Len(s)) = s

C16_Paso ==
    /\ \A dim \in Dimensiones :
           /\ IsPrefix(TablaDe(dim), TablaDe(dim)')
           /\ \A k \in DOMAIN MapaDe(dim) :
                  k \in DOMAIN MapaDe(dim)' /\ MapaDe(dim)'[k] = MapaDe(dim)[k]
           /\ ContadorDe(dim)' >= ContadorDe(dim)
    /\ IsPrefix(all_fact_denuncias, all_fact_denuncias')
    /\ next_denuncia_id' >= next_denuncia_id

\* C16: the accumulated collections are append-only over the run: in every
\* step each table keeps the rows it had as a prefix, each key of a map keeps
\* its identifier, and no counter goes down.
C16_SoloSeAgrega == [][C16_Paso]_vars

\* Two steps that each added a row to every table but the time table, and a
\* time key that was resolved, not registered, the second time.
C16_Testigo ==
    /\ pc = "fin"
    /\ Len(all_fact_denuncias) = 2
    /\ Len(all_dim_ubicacion) = 2
    /\ Len(all_dim_tipocaso) = 2
    /\ Len(all_dim_tiempo) = 1

\* Nothing is missing from the files: every file can be read, has all its
\* columns, and every cell holds a value (the dates being dates).
EntradaLimpia ==
    \A f \in Archivos :
        /\ f \in DOMAIN dir
        /\ dir[f].legible => SoloFalta(f, {})

\* The columns of the fact table the two variants are compared on.
SinUbicacion(hechos) ==
    [i \in 1..Len(hechos) |->
        [id_denuncia |-> hechos[i].id_denuncia, id_tiempo |-> hechos[i].id_tiempo,
         id_delito |-> hechos[i].id_delito,
         id_tipo_caso |-> hechos[i].id_tipo_caso, cantidad |-> hechos[i].cantidad]]

\* C17: on the same files, in the same order, with rows free of missing
\* values, the two variants write the same Dim_Tiempo, Dim_Delito and
\* Dim_TipoCaso and the same fact rows in the columns id_denuncia, id_tiempo,
\* id_delito, id_tipo_caso and cantidad.
C17_VariantesEquivalentes ==
    (corrida = 2 /\ pc = "fin" /\ EntradaLimpia) =>
        /\ all_dim_tiempo = primera[2][1]
        /\ all_dim_delito = primera[2][2]
        /\ all_dim_tipocaso = primera[2][4]
        /\ SinUbicacion(all_fact_denuncias) = SinUbicacion(primera[2][5])

\* Both variants have run over a file of two rows that differ in every
\* dimension but time.
C17_Testigo ==
    /\ corrida = 2
    /\ pc = "fin"
    /\ EntradaLimpia
    /\ Len(dir[2020].filas) = 2
    /\ Len(all_fact_denuncias) = 2
    /\ Len(primera[2][5]) = 2
    /\ next_delito_id = 3
    /\ next_tipocaso_id = 3

\* C18: for each dimension the map, the table and the counter agree in size
\* (keys = rows = counter - 1), the identifiers of the table are 1..n in table
\* order, the values of the map are the identifiers of the table; and the fact
\* table has next_denuncia_id - 1 rows.
C18_TamanosDeAcuerdo ==
    /\ \A dim \in Dimensiones :
           /\ Cardinality(DOMAIN MapaDe(dim)) = Len(TablaDe(dim))
           /\ Len(TablaDe(dim)) = ContadorDe(dim) - 1
           /\ \A n \in 1..Len(TablaDe(dim)) : TablaDe(dim)[n][IdCampo(dim)] = n
           /\ {MapaDe(dim)[k] : k \in DOMAIN MapaDe(dim)}
                  = Ids(TablaDe(dim), IdCampo(dim))
    /\ Len(all_fact_denuncias) = next_denuncia_id - 1

\* Between the two row steps of a file of the single-pass variant.
C18_Testigo ==
    /\ variante = "single"
    /\ pc = "filas"
    /\ Len(df) = 1
    /\ Len(all_fact_denuncias) = 1
    /\ \A dim \in Dimensiones : Len(TablaDe(dim)) = 1

\* The digits limpiar_ubigeo works from: the first run of digits of the text.
PrimerosDigitos(texto) == re_search_digitos(strip(texto))

\* C19 (as claimed): a raw UBIGEO whose first run of digits is two digits long
\* is cleaned to a six-digit code, is classified 'departamento', and its
\* department code is those two digits followed by 0000; no raw code of two or
\* of four digits is classified 'distrito'.
C19_CodigoCortoEsDepartamento ==
    LET digitos == PrimerosDigitos(ubigeo_raw)
    IN /\ Len(digitos) = 2 =>
              /\ ubigeo # None /\ Len(ubigeo) = 6 /\ IsDigits(ubigeo)
              /\ nombre # <<>> =>
                     /\ tipo_region = "departamento"
                     /\ jerarquia.departamento = digitos \o <<"0", "0", "0", "0">>
       /\ (Len(digitos) \in {2, 4} /\ nombre # <<>>) => tipo_region # "distrito"

=============================================================================
